---- MODULE Spec2Model ----
(***************************************************************************)
(* ChainspaceNetwork (chainspacemeasurements/instances.py): the fan-out    *)
(* calls install_deps, install_core, ssh_connect, ssh_exec and ssh_close   *)
(* over a multiprocessing.dummy.Pool, the shared ssh_connections mapping,  *)
(* and one _single_ssh_exec invocation in detail.                          *)
(***************************************************************************)
EXTENDS Integers, Sequences, FiniteSets, TLC

\* ------------------------------------------------------------------ bounds
MaxNodes == 5       \* instances tagged with this network's id
ConcNodes == 3      \* instances launched when the pool has several workers
MaxThreads == 2     \* values of ChainspaceNetwork.threads that are explored
MaxConnects == 2    \* successful client.connect calls per node
MaxCalls == 1       \* fan-out calls per behaviour of the pool runs
SessNodes == 2      \* instances launched in the session runs
SessCalls == 3      \* fan-out calls per behaviour of the session runs
MaxLines == 2       \* lines a remote command writes per stream
ExecNodes == 2      \* nodes in the mapping of the single-invocation runs
Window == 2         \* lines the channel takes in before the reader must consume
OtherNodes == 2     \* instances of the account that are not this network's
InstLines == 1      \* lines an install command writes per stream

\* Pool.map: chunksize, extra = divmod(len(iterable), len(self._pool) * 4)
ChunkFactor == 4

Nodes == 1..MaxNodes
Instances == 1..(MaxNodes + OtherNodes)
Workers == 1..(MaxThreads + 1)
FanOuts == {"install_deps", "install_core", "ssh_connect", "ssh_exec", "ssh_close"}

VARIABLES
    threads,          \* ChainspaceNetwork.threads (class attribute, read at Pool(...))
    eager,            \* MapResult._set: TRUE = ready at the first failed chunk
                      \* (CPython < 3.8), FALSE = ready when every chunk reported
    finalises,        \* the build closes a client that lost its last reference
    state,            \* inventory: instance of the account -> "absent" (never launched) |
                      \* "running" | "stopped" | "terminated"
    ssh_connections,  \* self.ssh_connections as a set of <<instance, client>> pairs
    gen,              \* instance -> number of clients connected to it so far
    open,             \* the clients whose transport is open
    ctl,              \* main thread: "caller" | "map" | "join"
    op,               \* the fan-out call in progress, or the last one ("none" at first)
    outcome,          \* how the last call ended: "none" | "returned" | "raised"
    calllog,          \* what self._log wrote in the fan-out call, in order
    budget,           \* fan-out calls the caller still makes
    targets,          \* result of self._get_running_instances() in this call
    args,             \* the args list handed to pool.map
    taskq,            \* the pool's task queue: chunks of args not yet taken
    wchunk,           \* worker -> the rest of its chunk; its head is running
    runs,             \* instance -> invocations started in this call
    ended,            \* instance -> "no" | "ok" | "raised" in this call
    left,             \* MapResult._number_left
    success,          \* MapResult._success
    ready,            \* MapResult is ready (map() may stop waiting)
    xpc,              \* the single _single_ssh_exec invocation: position
    xnode,            \* its instance
    xcmd,             \* what the remote command writes: [out, err] line counts
    xout,             \* stdout lines the remote command has still to deliver
    xerr,             \* stderr lines the remote command has still to deliver
    xbuf,             \* lines returned by stderr.readlines(), not yet logged
    xlog,             \* what _log_instance wrote for this invocation
    xcause,           \* what raised out of the invocation ("none" if nothing)
    xswallowed,       \* exceptions caught by the two `except Exception: pass`
    sent,             \* <<client, command>> pairs passed to client.exec_command
    remote,           \* the writes the remote process has still to do, in order
    faults,           \* what may fail in this run: "transport", "log"
    ifunc,            \* the install function the invocation runs in, or "none"
    ik                \* the index of its command in progress

poolVars == <<ctl, op, outcome, budget, calllog, targets, args, taskq, wchunk, runs, ended,
              left, success, ready>>
sessVars == <<ssh_connections, gen, open>>
execVars == <<xpc, xnode, xcmd, xout, xerr, xbuf, xlog, xcause, xswallowed, sent,
              remote, faults, ifunc, ik>>
vars == <<threads, eager, finalises, state, sessVars, poolVars, execVars>>

\* ------------------------------------------------------------------ helpers
Min(a, b) == IF a < b THEN a ELSE b

RECURSIVE SeqOf(_)
SeqOf(S) == IF S = {} THEN <<>>
            ELSE LET m == CHOOSE x \in S : \A y \in S : x <= y
                 IN  <<m>> \o SeqOf(S \ {m})

Client(n, k) == [node |-> n, gen |-> k]

\* ------------------------------------------------------------------ inventory
\* the query without the instance-state-name filter
RunningInstancesAnyState == {n \in Nodes : state[n] # "absent"}

\* self.network_id = str(network_id)
network_id == "1"

\* the tags of the instances: launch() tags this network's instances with
\* type=chainspace and network_id=self.network_id; of the others, every
\* second one is a chainspace node of another network, the rest carry this
\* network's id on another type
Tags(n) ==
    IF n \in Nodes THEN [type |-> "chainspace", network_id |-> network_id]
    ELSE IF (n - MaxNodes) % 2 = 1 THEN [type |-> "chainspace", network_id |-> "2"]
    ELSE [type |-> "other", network_id |-> network_id]

\* the tag filters without the one on network_id
TaggedAnyNetwork == {n \in Instances : Tags(n).type = "chainspace"}

\* Filters tag:type = chainspace, tag:network_id = self.network_id
Tagged ==
    {n \in Instances : Tags(n).type = "chainspace" /\ Tags(n).network_id = network_id}

\* _get_running_instances / _get_stopped_instances / _get_all_instances: the
\* instances tagged type=chainspace and network_id=self.network_id, by state
RunningInstances == {n \in Tagged : state[n] = "running"}
StoppedInstances == {n \in Tagged : state[n] = "stopped"}
AllInstances == {n \in Tagged : state[n] \in {"running", "stopped", "terminated"}}


\* ------------------------------------------------------------------ sessions
\* a lookup that ignores the key and yields whatever client the mapping holds
LookupAnyKey(conns, n) == {p[2] : p \in conns}

\* self.ssh_connections[instance] as an rvalue: the clients stored under the
\* key; the empty set is Python's KeyError.
Lookup(conns, n) == {p[2] : p \in {q \in conns : q[1] = n}}

\* a store that keeps the entries already present under the key
StoreSessionKeepOld(conns, n, c) == conns \cup {<<n, c>>}

\* a store that rebinds the mapping to a fresh one holding only the new entry
StoreSessionRebind(conns, n, c) == {<<n, c>>}

\* self.ssh_connections[instance] = client: one dict store, atomic under the
\* interpreter lock; an entry already under the key is replaced.
StoreSession(conns, n, c) == {p \in conns : p[1] # n} \cup {<<n, c>>}

\* the open clients once client c is stored under n: the client that was
\* under the key loses the mapping's reference; whether it is then finalised
\* and its transport closed, or kept alive and open by its transport thread,
\* depends on the paramiko and interpreter build
OpenAfterStore(opn, conns, n, c) ==
    IF finalises THEN (opn \ Lookup(conns, n)) \cup {c} ELSE opn \cup {c}

\* a close that also deletes the node's entry
AfterCloseForget(conns, n) == {p \in conns : p[1] # n}

\* the mapping after _single_ssh_close(instance): client.close() is called on
\* the looked-up client and self.ssh_connections is not written
AfterClose(conns, n) == conns

\* outcomes (TRUE = returned, FALSE = raised) one _single_ssh_exec(instance,
\* command) can have: KeyError without an entry, an exception of exec_command
\* on a closed client, and otherwise either (the remote side may fail).
ExecOutcomes(n) ==
    IF Lookup(ssh_connections, n) = {} \/ ~(Lookup(ssh_connections, n) \subseteq open)
    THEN {FALSE}
    ELSE {TRUE, FALSE}

\* the commands tuples of _single_install_deps and _single_install_core
DepsCommands == 3
CoreCommands == 4
NumCommands(f) == IF f = "_single_install_deps" THEN DepsCommands ELSE CoreCommands

Commands(f) ==
    IF f = "_single_install_deps"
    THEN << "sudo apt update",
            "sudo apt install -t jessie-backports openjdk-8-jdk -y",
            "sudo apt install git python-pip maven screen psmisc -y" >>
    ELSE << "git clone https://github.com/musalbas/chainspace",
            "sudo pip install chainspace/chainspacecontract",
            "sudo update-alternatives --set java /usr/lib/jvm/java-8-openjdk-amd64/jre/bin/java",
            "cd chainspace/chainspacecore; export JAVA_HOME=/usr/lib/jvm/java-8-openjdk-amd64; mvn package assembly:single" >>

\* a loop that walks the tuple from its end
CommandAtFromEnd(f, k) == Commands(f)[Len(Commands(f)) + 1 - k]

\* for command in commands: the command of the k-th pass
CommandAt(f, k) == Commands(f)[k]

\* ------------------------------------------------------------------ the pool
\* Pool(ChainspaceNetwork.threads) with one worker too many
PoolWorkersOneMore(t) == 1..(t + 1)

\* Pool(ChainspaceNetwork.threads): the worker threads of the pool
PoolWorkers(t) == 1..t

FuncOf(o) ==
    CASE o = "install_deps" -> "_single_install_deps"
      [] o = "install_core" -> "_single_install_core"
      [] o = "ssh_connect"  -> "_single_ssh_connect"
      [] o = "ssh_exec"     -> "_single_ssh_exec"
      [] o = "ssh_close"    -> "_single_ssh_close"

\* the list comprehension, leaving out the last instance of the query
FanOutArgsDropLast(o, insts) ==
    [i \in 1..(Len(insts) - 1) |->
        IF o = "ssh_exec" THEN <<FuncOf(o), insts[i], "command">>
                          ELSE <<FuncOf(o), insts[i]>>]

\* args = [(self._single_X, instance[, command]) for instance in
\*         self._get_running_instances()]
FanOutArgs(o, insts) ==
    [i \in 1..Len(insts) |->
        IF o = "ssh_exec" THEN <<FuncOf(o), insts[i], "command">>
                          ELSE <<FuncOf(o), insts[i]>>]

\* _multi_args_wrapper(args): return args[0](*args[1:])
MultiArgsWrapper(a) == [func |-> a[1], params |-> Tail(a)]

TaskFunc(a) == MultiArgsWrapper(a).func
TaskNode(a) == MultiArgsWrapper(a).params[1]

\* Pool._map_async: chunksize, extra = divmod(len(iterable), len(pool) * 4);
\* if extra: chunksize += 1; if len(iterable) == 0: chunksize = 0
ChunkSize(len, poolsize) ==
    IF len = 0 THEN 0
    ELSE (len \div (poolsize * ChunkFactor))
         + (IF len % (poolsize * ChunkFactor) # 0 THEN 1 ELSE 0)

\* Pool._get_tasks: the iterable cut into consecutive chunks of `size`
RECURSIVE GetTasks(_, _)
GetTasks(s, size) ==
    IF Len(s) = 0 \/ size = 0 THEN <<>>
    ELSE LET k == Min(size, Len(s))
         IN  <<SubSeq(s, 1, k)>> \o GetTasks(SubSeq(s, k + 1, Len(s)), size)

\* the first and the last self._log(...) of the fan-out methods
OpeningLine(o) ==
    CASE o = "install_deps" -> "Installing Chainspace dependencies on all nodes..."
      [] o = "install_core" -> "Installing Chainspace core on all nodes..."
      [] o = "ssh_connect"  -> "Initiating SSH connection on all nodes..."
      [] o = "ssh_exec"     -> "Executing command on all nodes: {}"
      [] o = "ssh_close"    -> "Closing SSH connection on all nodes..."

ClosingLine(o) ==
    CASE o = "install_deps" -> "Installed Chainspace dependencies on all nodes."
      [] o = "install_core" -> "Installed Chainspace core on all nodes."
      [] o = "ssh_connect"  -> "Initiated SSH connection on all nodes."
      [] o = "ssh_exec"     -> "Executed command on all nodes: {}"
      [] o = "ssh_close"    -> "Closed SSH connection on all nodes..."

\* a call that writes its closing line before it hands the work to the pool
LogBeforeMapBoth(o) == <<OpeningLine(o), ClosingLine(o)>>

\* what the fan-out method has logged when it reaches pool.map
LogBeforeMap(o) == <<OpeningLine(o)>>

Busy == {w \in Workers : wchunk[w] # <<>>}
Drained == taskq = <<>> /\ Busy = {}

\* a result that counts a failed chunk as a finished one
MapResultSetIgnoreFailure(ok) ==
    /\ left' = left - 1
    /\ ready' = (left - 1 = 0)
    /\ success' = success

\* MapResult._set(i, (ok, value)) for one finished chunk
MapResultSet(ok) ==
    IF eager /\ ~success
    THEN UNCHANGED <<left, success, ready>>      \* the job left the cache
    ELSE IF ok
    THEN /\ left' = left - 1
         /\ ready' = (left - 1 = 0)
         /\ success' = success
    ELSE IF eager
    THEN /\ success' = FALSE
         /\ ready' = TRUE
         /\ left' = left
    ELSE /\ success' = FALSE
         /\ left' = left - 1
         /\ ready' = (left - 1 = 0)

\* worker w ends the invocation at the head of its chunk (mapstar:
\* list(map(func, chunk)) runs the chunk in order and stops at the first raise)
Complete(w, ok) ==
    LET n == TaskNode(Head(wchunk[w]))
        rest == Tail(wchunk[w])
    IN  /\ ended' = [ended EXCEPT ![n] = IF ok THEN "ok" ELSE "raised"]
        /\ IF ok /\ rest # <<>>
           THEN /\ wchunk' = [wchunk EXCEPT ![w] = rest]
                /\ runs' = [runs EXCEPT ![TaskNode(Head(rest))] = @ + 1]
                /\ UNCHANGED <<left, success, ready>>
           ELSE /\ wchunk' = [wchunk EXCEPT ![w] = <<>>]
                /\ runs' = runs
                /\ MapResultSet(ok)
        /\ UNCHANGED <<ctl, op, outcome, budget, calllog, targets, args, taskq>>

Runs(w, f) == wchunk[w] # <<>> /\ TaskFunc(Head(wchunk[w])) = f


\* ------------------------------------------------------------------ the calls
\* install_deps / install_core / ssh_connect / ssh_exec / ssh_close up to
\* pool.map(...): the opening log line, the args list, Pool(threads), and the
\* chunks put on the task queue.  The caller issues a call once the workers
\* of an earlier call that raised have run dry, and a connect only while the
\* model still has a client left for every target.
Dispatch(o) ==
    /\ ctl = "caller"
    /\ budget > 0
    /\ Drained
    /\ o = "ssh_connect" => \A n \in RunningInstances : gen[n] < MaxConnects
    /\ LET a == FanOutArgs(o, SeqOf(RunningInstances))
           q == GetTasks(a, ChunkSize(Len(a), Cardinality(PoolWorkers(threads))))
       IN  /\ targets' = RunningInstances
           /\ args' = a
           /\ taskq' = q
           /\ left' = Len(q)
           /\ ready' = (Len(q) = 0)
    /\ success' = TRUE
    /\ op' = o
    /\ ctl' = "map"
    /\ outcome' = "none"
    /\ budget' = budget - 1
    /\ calllog' = LogBeforeMap(o)
    /\ runs' = [n \in Instances |-> 0]
    /\ ended' = [n \in Instances |-> "no"]
    /\ wchunk' = wchunk
    /\ UNCHANGED <<threads, eager, finalises, state, sessVars, execVars>>

\* a pool worker takes the next chunk and starts its first invocation.  The
\* workers are identical threads: of the idle ones the lowest-numbered takes
\* the chunk, which leaves out only renamings of the workers.
TakeTask(w) ==
    /\ w \in PoolWorkers(threads)
    /\ wchunk[w] = <<>>
    /\ \A v \in PoolWorkers(threads) : v < w => wchunk[v] # <<>>
    /\ taskq # <<>>
    /\ wchunk' = [wchunk EXCEPT ![w] = Head(taskq)]
    /\ taskq' = Tail(taskq)
    /\ runs' = [runs EXCEPT ![TaskNode(Head(Head(taskq)))] = @ + 1]
    /\ UNCHANGED <<ctl, op, outcome, budget, calllog, targets, args, ended, left, success, ready>>
    /\ UNCHANGED <<threads, eager, finalises, state, sessVars, execVars>>

\* _single_ssh_connect(instance): client.connect raises, or the new client
\* is stored under the instance
SingleSshConnect(w) ==
    /\ Runs(w, "_single_ssh_connect")
    /\ LET n == TaskNode(Head(wchunk[w]))
       IN  \/ /\ Complete(w, FALSE)
              /\ UNCHANGED sessVars
           \/ /\ gen[n] < MaxConnects
              /\ gen' = [gen EXCEPT ![n] = @ + 1]
              /\ open' = OpenAfterStore(open, ssh_connections, n, Client(n, gen[n] + 1))
              /\ ssh_connections' = StoreSession(ssh_connections, n, Client(n, gen[n] + 1))
              /\ Complete(w, TRUE)
    /\ UNCHANGED <<threads, eager, finalises, state, execVars>>

\* _single_ssh_exec(instance, command) as one step of its worker
SingleSshExec(w) ==
    /\ Runs(w, "_single_ssh_exec")
    /\ \E ok \in ExecOutcomes(TaskNode(Head(wchunk[w]))) : Complete(w, ok)
    /\ UNCHANGED <<threads, eager, finalises, state, sessVars, execVars>>

\* _single_install_deps / _single_install_core: the commands in order, each
\* through _single_ssh_exec; the first one that raises ends the invocation
SingleInstall(w) ==
    /\ \/ Runs(w, "_single_install_deps")
       \/ Runs(w, "_single_install_core")
    /\ LET n == TaskNode(Head(wchunk[w]))
           f == TaskFunc(Head(wchunk[w]))
       IN  \E k \in 1..NumCommands(f) : \E ok \in ExecOutcomes(n) :
              /\ k > 1 => TRUE \in ExecOutcomes(n)
              /\ ok => k = NumCommands(f)
              /\ Complete(w, ok)
    /\ UNCHANGED <<threads, eager, finalises, state, sessVars, execVars>>

\* _single_ssh_close(instance): KeyError without an entry; client.close()
\* otherwise.  The mapping is not written.
SingleSshClose(w) ==
    /\ Runs(w, "_single_ssh_close")
    /\ LET n == TaskNode(Head(wchunk[w]))
       IN  IF Lookup(ssh_connections, n) = {}
           THEN /\ Complete(w, FALSE)
                /\ UNCHANGED sessVars
           ELSE /\ open' = open \ Lookup(ssh_connections, n)
                /\ ssh_connections' = AfterClose(ssh_connections, n)
                /\ Complete(w, TRUE)
                /\ UNCHANGED gen
    /\ UNCHANGED <<threads, eager, finalises, state, execVars>>

\* pool.map returns: the result is ready and no chunk failed; pool.close()
MapReturn ==
    /\ ctl = "map"
    /\ ready
    /\ success
    /\ ctl' = "join"
    /\ UNCHANGED <<op, outcome, budget, calllog, targets, args, taskq, wchunk, runs, ended,
                   left, success, ready>>
    /\ UNCHANGED <<threads, eager, finalises, state, sessVars, execVars>>

\* pool.map re-raises the exception of a failed chunk: the call is left at
\* line pool.map(...), pool.close(), pool.join() and the closing log are skipped
MapRaise ==
    /\ ctl = "map"
    /\ ready
    /\ ~success
    /\ ctl' = "caller"
    /\ outcome' = "raised"
    /\ UNCHANGED <<op, budget, calllog, targets, args, taskq, wchunk, runs, ended,
                   left, success, ready>>
    /\ UNCHANGED <<threads, eager, finalises, state, sessVars, execVars>>

\* pool.join() returns once the workers have run dry; closing log; return
JoinReturn ==
    /\ ctl = "join"
    /\ Drained
    /\ ctl' = "caller"
    /\ outcome' = "returned"
    /\ calllog' = Append(calllog, ClosingLine(op))
    /\ UNCHANGED <<op, budget, targets, args, taskq, wchunk, runs, ended,
                   left, success, ready>>
    /\ UNCHANGED <<threads, eager, finalises, state, sessVars, execVars>>

\* start(): self._get_stopped_instances().start()
Start ==
    /\ ctl = "caller"
    /\ state' = [n \in Instances |-> IF n \in StoppedInstances THEN "running" ELSE state[n]]
    /\ UNCHANGED <<threads, eager, finalises, sessVars, poolVars, execVars>>

\* stop(): self._get_running_instances().stop()
Stop ==
    /\ ctl = "caller"
    /\ state' = [n \in Instances |-> IF n \in RunningInstances THEN "stopped" ELSE state[n]]
    /\ UNCHANGED <<threads, eager, finalises, sessVars, poolVars, execVars>>

\* terminate(): self._get_all_instances().terminate()
Terminate ==
    /\ ctl = "caller"
    /\ state' = [n \in Instances |-> IF n \in AllInstances THEN "terminated" ELSE state[n]]
    /\ UNCHANGED <<threads, eager, finalises, sessVars, poolVars, execVars>>

\* ------------------------------------------------------------------ Init
ExecIdle ==
    /\ xpc = "idle"
    /\ xnode = 0
    /\ xcmd = [out |-> 0, err |-> 0]
    /\ xout = 0
    /\ xerr = 0
    /\ xbuf = <<>>
    /\ xlog = <<>>
    /\ xcause = "none"
    /\ xswallowed = 0
    /\ sent = <<>>
    /\ remote = <<>>
    /\ faults = {}
    /\ ifunc = "none"
    /\ ik = 0

PoolIdle ==
    /\ ctl = "caller"
    /\ calllog = <<>>
    /\ op = "none"
    /\ outcome = "none"
    /\ targets = {}
    /\ args = <<>>
    /\ taskq = <<>>
    /\ wchunk = [w \in Workers |-> <<>>]
    /\ runs = [n \in Instances |-> 0]
    /\ ended = [n \in Instances |-> "no"]
    /\ left = 0
    /\ success = TRUE
    /\ ready = TRUE

\* after __init__ and launch(k): no session, k running instances.  Lists
\* long enough for chunks of several tasks are run on a pool of one worker,
\* pools of several workers get lists of up to ConcNodes instances.
Launched(maxk) ==
    /\ threads \in 1..MaxThreads
    /\ eager \in BOOLEAN
    /\ finalises \in BOOLEAN
    /\ \E k \in 0..(IF threads = 1 THEN maxk ELSE Min(maxk, ConcNodes)) :
          state = [n \in Instances |-> IF n <= k THEN "running" ELSE "absent"]
    /\ ssh_connections = {}
    /\ gen = [n \in Instances |-> 0]
    /\ open = {}
    /\ PoolIdle
    /\ ExecIdle

Init ==
    /\ Launched(MaxNodes)
    /\ budget = MaxCalls

InitSess ==
    /\ Launched(SessNodes)
    /\ budget = SessCalls

\* an account in which up to SessNodes instances of this network and the
\* instances of others are each running or stopped (on one build: the
\* inventory queries do not depend on the interpreter or on paramiko)
InitInv ==
    /\ threads \in 1..MaxThreads
    /\ eager = FALSE
    /\ finalises = FALSE
    /\ \E k \in 1..SessNodes :
       \E st \in [(1..k) \cup (Instances \ Nodes) -> {"running", "stopped"}] :
          state = [n \in Instances |-> IF n \in DOMAIN st THEN st[n] ELSE "absent"]
    /\ ssh_connections = {}
    /\ gen = [n \in Instances |-> 0]
    /\ open = {}
    /\ PoolIdle
    /\ ExecIdle
    /\ budget = MaxCalls

Next ==
    \/ \E o \in FanOuts : Dispatch(o)
    \/ \E w \in Workers : TakeTask(w)
    \/ \E w \in Workers : SingleSshConnect(w)
    \/ \E w \in Workers : SingleSshExec(w)
    \/ \E w \in Workers : SingleInstall(w)
    \/ \E w \in Workers : SingleSshClose(w)
    \/ MapReturn
    \/ MapRaise
    \/ JoinReturn
    \/ Start
    \/ Stop
    \/ Terminate

Spec == Init /\ [][Next]_vars

SpecSess == InitSess /\ [][Next]_vars

SpecInv == InitInv /\ [][Next]_vars


\* ------------------------------------------------------------------ one exec
\* A single _single_ssh_exec(instance, command) step by step, from a state
\* the session mapping can be in after ssh_connect and ssh_close calls.

Count(s, x) == Cardinality({i \in 1..Len(s) : s[i] = x})

\* the stdout lines the for statement has got from stdout.readline so far
StdoutRead == xcmd.out - xout - Count(remote, "stdout")

\* an except clause that lets the exception of _log_instance go on
AfterLogFailureReraise(pc) == "raised"

\* try: self._log_instance(instance, message.rstrip())
\* except Exception: pass          -- the loop goes on from where it was
AfterLogFailure(pc) == pc

\* the try statement around the logging of one line that was read
LogLine(pc, line) ==
    \/ /\ xlog' = Append(xlog, line)
       /\ xpc' = pc
       /\ UNCHANGED <<xcause, xswallowed>>
    \/ /\ "log" \in faults
       /\ xlog' = xlog
       /\ xpc' = AfterLogFailure(pc)
       /\ IF AfterLogFailure(pc) = "raised"
          THEN xcause' = "log" /\ xswallowed' = xswallowed
          ELSE xcause' = xcause /\ xswallowed' = xswallowed + 1

\* the command argument of the invocation: the one of the install loop's
\* pass, or the caller's
Command == IF ifunc = "none" THEN "command" ELSE CommandAt(ifunc, ik)

\* lines 80-82: the "Executing command" log line, the lookup of the client
\* (KeyError without an entry) and client.exec_command(command), which raises
\* on a closed client and may raise on an open one
XBegin ==
    /\ xpc = "start"
    /\ xlog' = Append(xlog, <<"Executing command", 0>>)
    /\ IF Lookup(ssh_connections, xnode) = {}
       THEN /\ xpc' = "raised"
            /\ xcause' = "KeyError"
            /\ sent' = sent
       ELSE \E c \in Lookup(ssh_connections, xnode) :
               \/ /\ c \notin open \/ "transport" \in faults
                  /\ xpc' = "raised"
                  /\ xcause' = "exec_command"
                  /\ sent' = sent
               \/ /\ c \in open
                  /\ sent' = Append(sent, <<c, Command>>)
                  /\ xpc' = "stdout"
                  /\ xcause' = xcause
    /\ UNCHANGED <<xnode, xcmd, xout, xerr, xbuf, xswallowed>>
    /\ UNCHANGED <<remote, faults, ifunc, ik>>
    /\ UNCHANGED <<threads, eager, finalises, state, sessVars, poolVars>>

\* lines 83-87: for message in iter(stdout.readline, ''): readline raises
\* (outside the try), returns '' at the end of the stream, or returns a line
\* that is then logged inside the try.  Without a buffered line it waits: the
\* end of the stream comes when the remote process has written everything.
XReadline ==
    /\ xpc = "stdout"
    /\ \/ /\ "transport" \in faults
          /\ xpc' = "raised"
          /\ xcause' = "stdout.readline"
          /\ UNCHANGED <<xout, xlog, xswallowed>>
       \/ /\ xout = 0
          /\ remote = <<>>
          /\ xpc' = "stderr"
          /\ UNCHANGED <<xout, xlog, xcause, xswallowed>>
       \/ /\ xout > 0
          /\ xout' = xout - 1
          /\ LogLine("stdout", <<"stdout", StdoutRead + 1>>)
    /\ UNCHANGED <<xnode, xcmd, xerr, xbuf, sent>>
    /\ UNCHANGED <<remote, faults, ifunc, ik>>
    /\ UNCHANGED <<threads, eager, finalises, state, sessVars, poolVars>>

\* a list of the stream's lines from the last to the first
ReadLinesReversed(k) == [i \in 1..k |-> <<"stderr", k + 1 - i>>]

\* stderr.readlines() on a stream of k lines: the list of them from the first
\* to the last
ReadLines(k) == [i \in 1..k |-> <<"stderr", i>>]

\* line 88: stderr.readlines() raises (outside the try) or returns every
\* line of the stream at once, when the stream has ended
XReadlines ==
    /\ xpc = "stderr"
    /\ \/ /\ "transport" \in faults
          /\ xpc' = "raised"
          /\ xcause' = "stderr.readlines"
          /\ UNCHANGED <<xerr, xbuf>>
       \/ /\ remote = <<>>
          /\ xbuf' = ReadLines(xerr)
          /\ xerr' = 0
          /\ xpc' = "errlog"
          /\ xcause' = xcause
    /\ UNCHANGED <<xnode, xcmd, xout, xlog, xswallowed, sent>>
    /\ UNCHANGED <<remote, faults, ifunc, ik>>
    /\ UNCHANGED <<threads, eager, finalises, state, sessVars, poolVars>>

\* lines 88-92: the body of the stderr loop for the next line of the list
XLogErr ==
    /\ xpc = "errlog"
    /\ xbuf # <<>>
    /\ xbuf' = Tail(xbuf)
    /\ LogLine("errlog", Head(xbuf))
    /\ UNCHANGED <<xnode, xcmd, xout, xerr, sent>>
    /\ UNCHANGED <<remote, faults, ifunc, ik>>
    /\ UNCHANGED <<threads, eager, finalises, state, sessVars, poolVars>>

\* line 93: the "Executed command" log line; the invocation returns
XEnd ==
    /\ xpc = "errlog"
    /\ xbuf = <<>>
    /\ xlog' = Append(xlog, <<"Executed command", 0>>)
    /\ xpc' = "done"
    /\ UNCHANGED <<xnode, xcmd, xout, xerr, xbuf, xcause, xswallowed, sent>>
    /\ UNCHANGED <<remote, faults, ifunc, ik>>
    /\ UNCHANGED <<threads, eager, finalises, state, sessVars, poolVars>>

\* each of the first ExecNodes instances is running and has no entry, an
\* entry with an open client, or an entry with a closed client; one
\* invocation is about to run a command that writes up to MaxLines lines on
\* each stream; the whole output is there when the invocation reads, and
\* the transport and the logging may fail
InitExec ==
    /\ threads = 1
    /\ eager = FALSE
    /\ finalises = FALSE
    /\ state = [n \in Instances |-> IF n <= ExecNodes THEN "running" ELSE "absent"]
    /\ \E st \in [1..ExecNodes -> {"none", "open", "closed"}] :
          /\ gen = [n \in Instances |-> IF n <= ExecNodes /\ st[n] # "none" THEN 1 ELSE 0]
          /\ ssh_connections = {<<n, Client(n, 1)>> : n \in {m \in 1..ExecNodes : st[m] # "none"}}
          /\ open = {Client(n, 1) : n \in {m \in 1..ExecNodes : st[m] = "open"}}
    /\ PoolIdle
    /\ budget = 0
    /\ xpc = "start"
    /\ xnode \in 1..ExecNodes
    /\ xcmd \in [out : 0..MaxLines, err : 0..MaxLines]
    /\ xout = xcmd.out
    /\ xerr = xcmd.err
    /\ xbuf = <<>>
    /\ xlog = <<>>
    /\ xcause = "none"
    /\ xswallowed = 0
    /\ sent = <<>>
    /\ remote = <<>>
    /\ faults = {"transport", "log"}
    /\ ifunc = "none"
    /\ ik = 0

NextExec ==
    \/ XBegin
    \/ XReadline
    \/ XReadlines
    \/ XLogErr
    \/ XEnd

SpecExec == InitExec /\ [][NextExec]_vars

\* ------------------------------------------------------------------ streams
\* The same invocation while the remote process is still writing.  stdout and
\* stderr of one exec_command share one channel: the remote side can write
\* while fewer than Window lines are taken in and unread, and both files
\* reach their end when the process has written everything.

\* the orders in which a command can write o stdout and e stderr lines
Scripts(o, e) ==
    {s \in [1..(o + e) -> {"stdout", "stderr"}] : Count(s, "stdout") = o}

\* the remote process writes its next line into the channel
RemoteWrite ==
    /\ xpc \in {"stdout", "stderr", "errlog"}
    /\ remote # <<>>
    /\ xout + xerr < Window
    /\ remote' = Tail(remote)
    /\ IF Head(remote) = "stdout"
       THEN xout' = xout + 1 /\ xerr' = xerr
       ELSE xerr' = xerr + 1 /\ xout' = xout
    /\ UNCHANGED <<xpc, xnode, xcmd, xbuf, xlog, xcause, xswallowed, sent>>
    /\ UNCHANGED <<faults, ifunc, ik>>
    /\ UNCHANGED <<threads, eager, finalises, state, sessVars, poolVars>>

\* instance 1 has an open client; the command is about to be sent and will
\* write up to MaxLines lines on each stream in some order; nothing fails
InitStream ==
    /\ threads = 1
    /\ eager = FALSE
    /\ finalises = FALSE
    /\ state = [n \in Instances |-> IF n <= ExecNodes THEN "running" ELSE "absent"]
    /\ gen = [n \in Instances |-> IF n = 1 THEN 1 ELSE 0]
    /\ ssh_connections = {<<1, Client(1, 1)>>}
    /\ open = {Client(1, 1)}
    /\ PoolIdle
    /\ budget = 0
    /\ xpc = "start"
    /\ xnode = 1
    /\ xcmd \in [out : 0..MaxLines, err : 0..MaxLines]
    /\ remote \in Scripts(xcmd.out, xcmd.err)
    /\ xout = 0
    /\ xerr = 0
    /\ xbuf = <<>>
    /\ xlog = <<>>
    /\ xcause = "none"
    /\ xswallowed = 0
    /\ sent = <<>>
    /\ faults = {}
    /\ ifunc = "none"
    /\ ik = 0

NextStream ==
    \/ RemoteWrite
    \/ XBegin
    \/ XReadline
    \/ XReadlines
    \/ XLogErr
    \/ XEnd

SpecStream == InitStream /\ [][NextStream]_vars

\* ------------------------------------------------------------------ install
\* One _single_install_deps / _single_install_core invocation, its commands
\* run through the steps of _single_ssh_exec above.

\* the output of the command in progress has been read to its end
OutputReadToEnd == remote = <<>> /\ xout = 0 /\ xerr = 0 /\ xbuf = <<>>

\* lines 49 / 60: the "Installing ..." log line, then the commands tuple
InstallBegin ==
    /\ xpc = "idle"
    /\ ifunc # "none"
    /\ xlog' = Append(xlog, <<"Installing", 0>>)
    /\ xpc' = "loop"
    /\ UNCHANGED <<xnode, xcmd, xout, xerr, xbuf, xcause, xswallowed, sent>>
    /\ UNCHANGED <<remote, faults, ifunc, ik>>
    /\ UNCHANGED <<threads, eager, finalises, state, sessVars, poolVars>>

\* lines 55-56 / 67-68: the for statement takes the next command once
\* _single_ssh_exec has returned for the one before, and calls
\* _single_ssh_exec with it; the command will write up to InstLines lines on
\* each stream
NextCommand ==
    /\ xpc \in {"loop", "done"}
    /\ ifunc # "none"
    /\ ik < NumCommands(ifunc)
    /\ ik' = ik + 1
    /\ xpc' = "start"
    /\ xcmd' \in [out : 0..InstLines, err : 0..InstLines]
    /\ remote' \in Scripts(xcmd'.out, xcmd'.err)
    /\ UNCHANGED <<xnode, xout, xerr, xbuf, xlog, xcause, xswallowed, sent>>
    /\ UNCHANGED <<faults, ifunc>>
    /\ UNCHANGED <<threads, eager, finalises, state, sessVars, poolVars>>

\* lines 57 / 69: the tuple is exhausted; the "Installed ..." log line
InstallEnd ==
    /\ xpc \in {"loop", "done"}
    /\ ifunc # "none"
    /\ ik = NumCommands(ifunc)
    /\ xlog' = Append(xlog, <<"Installed", 0>>)
    /\ xpc' = "installed"
    /\ UNCHANGED <<xnode, xcmd, xout, xerr, xbuf, xcause, xswallowed, sent>>
    /\ UNCHANGED <<remote, faults, ifunc, ik>>
    /\ UNCHANGED <<threads, eager, finalises, state, sessVars, poolVars>>

\* instance 1 is running and has no entry, an open client or a closed one;
\* one install invocation is about to run on it; the transport may fail
InitInstall ==
    /\ threads = 1
    /\ eager = FALSE
    /\ finalises = FALSE
    /\ state = [n \in Instances |-> IF n = 1 THEN "running" ELSE "absent"]
    /\ \E st \in {"none", "open", "closed"} :
          /\ gen = [n \in Instances |-> IF n = 1 /\ st # "none" THEN 1 ELSE 0]
          /\ ssh_connections = IF st = "none" THEN {} ELSE {<<1, Client(1, 1)>>}
          /\ open = IF st = "open" THEN {Client(1, 1)} ELSE {}
    /\ PoolIdle
    /\ budget = 0
    /\ xpc = "idle"
    /\ xnode = 1
    /\ xcmd = [out |-> 0, err |-> 0]
    /\ remote = <<>>
    /\ xout = 0
    /\ xerr = 0
    /\ xbuf = <<>>
    /\ xlog = <<>>
    /\ xcause = "none"
    /\ xswallowed = 0
    /\ sent = <<>>
    /\ faults \in {{}, {"transport"}}
    /\ ifunc \in {"_single_install_deps", "_single_install_core"}
    /\ ik = 0

NextInstall ==
    \/ InstallBegin
    \/ NextCommand
    \/ InstallEnd
    \/ RemoteWrite
    \/ XBegin
    \/ XReadline
    \/ XReadlines
    \/ XLogErr
    \/ XEnd

SpecInstall == InitInstall /\ [][NextInstall]_vars

\* ------------------------------------------------------------------ claims
CallOver == ctl = "caller" /\ op # "none"
SomeRaised == \E n \in Nodes : ended[n] = "raised"

\* C1: when a per-node invocation of a fan-out call raises, the call still
\* returns normally to its caller (the failure is not re-raised).
C1_FailureNotReraised == (CallOver /\ SomeRaised) => outcome = "returned"

\* C2: a fan-out call hands control back to its caller (by return or by
\* raising) only when none of its invocations is still running or waiting to
\* start, i.e. every targeted node's invocation has ended.
C2_ControlBackOnlyWhenAllEnded ==
    CallOver => (Drained /\ \A n \in targets : ended[n] # "no")

\* C3: when one invocation raises, every other targeted node's invocation is
\* still started and runs to its end: once the call is over and the pool has
\* run dry, no targeted node is left without an ended invocation.
C3_SiblingsRunToTheirEnd ==
    (CallOver /\ Drained) => \A n \in targets : ended[n] # "no"

\* C4: when no invocation raises, the call returns normally after exactly one
\* invocation for each node of the inventory query (none skipped, none
\* repeated, none for other nodes), whatever the pool size.
C4_EachNodeExactlyOnce ==
    ~SomeRaised =>
        /\ \A n \in Nodes : runs[n] <= 1
        /\ CallOver =>
              /\ outcome = "returned"
              /\ \A n \in Nodes :
                    IF n \in targets THEN runs[n] = 1 /\ ended[n] = "ok"
                                     ELSE runs[n] = 0 /\ ended[n] = "no"

C4_Witness ==
    /\ CallOver
    /\ outcome = "returned"
    /\ threads = 2
    /\ Cardinality(targets) = 3
    /\ \A n \in targets : ended[n] = "ok"

\* C5: at every moment the number of invocations running at the same time is
\* at most the pool size (threads); the others wait on the task queue.
C5_AtMostThreadsRunning == Cardinality(Busy) <= threads

C5_Witness == Cardinality(Busy) = threads /\ taskq # <<>> /\ threads = 2

NoneRunning == \A n \in Nodes : state[n] # "running"

\* C9: a fan-out call made while the inventory has no running node of the
\* network starts no invocation, leaves the session mapping as it was, and
\* returns normally.
C9_EmptyInventoryNoInvocation ==
    [][(NoneRunning /\ (ctl # "caller" \/ ctl' # "caller")) =>
          /\ ssh_connections' = ssh_connections
          /\ \A n \in Nodes : runs'[n] = 0
          /\ taskq' = <<>>
          /\ ctl' = "caller" => outcome' = "returned"]_vars

C9_Witness ==
    /\ CallOver
    /\ outcome = "returned"
    /\ NoneRunning
    /\ targets = {}
    /\ ssh_connections # {}


\* C7: in every reachable state the session mapping tracks at most one
\* session for each node.
C7_AtMostOneSessionPerNode ==
    \A n \in Nodes : Cardinality(Lookup(ssh_connections, n)) <= 1

C7_Witness ==
    \E n \in Nodes :
        /\ gen[n] = 2
        /\ Lookup(ssh_connections, n) = {Client(n, 2)}
        /\ Client(n, 1) \in open

\* C8: after ssh_connect has returned normally, every targeted node maps to
\* the client that was connected to that node in the call (the latest one
\* connected to it); no worker's store was lost to another worker's.
C8_NoLostSessionUpdate ==
    (CallOver /\ op = "ssh_connect" /\ outcome = "returned") =>
        \A n \in targets :
            /\ gen[n] >= 1
            /\ Lookup(ssh_connections, n) = {Client(n, gen[n])}

C8_Witness ==
    /\ CallOver
    /\ op = "ssh_connect"
    /\ outcome = "returned"
    /\ threads = 2
    /\ Cardinality(targets) = 2
    /\ \A n \in targets : gen[n] = 1


Tracked(n) == \E p \in ssh_connections : p[1] = n

\* C6: an exec against a node without a tracked session ends that invocation
\* in an error (KeyError) in its first step: no command is sent to any
\* client, the invocation does not wait, the session mapping is unchanged.
C6_NoSessionIsAnError ==
    [][(xpc = "start" /\ ~Tracked(xnode)) =>
          /\ xpc' = "raised"
          /\ xcause' = "KeyError"
          /\ sent' = sent
          /\ ssh_connections' = ssh_connections]_vars

C6_Witness ==
    /\ xpc = "raised"
    /\ xcause = "KeyError"
    /\ ~Tracked(xnode)
    /\ \E n \in Nodes : Tracked(n) /\ Lookup(ssh_connections, n) \subseteq open
    /\ sent = <<>>

\* C10 as stated: no exception raised while the output is read (by
\* stdout.readline, by stderr.readlines or by logging a line) leaves the
\* invocation.
C10_OutputExceptionsSwallowed ==
    xpc = "raised" => xcause \notin {"stdout.readline", "stderr.readlines", "log"}

\* C10 amended: an exception raised while a line that was read is logged is
\* swallowed, the invocation goes on with the remaining output and ends with
\* 'Executed command': it never raises because of a log failure, and when it
\* is done every line of both streams was either logged or swallowed.
C10_LogExceptionsSwallowed ==
    /\ xpc = "raised" => xcause # "log"
    /\ xpc = "done" =>
          /\ xout = 0 /\ xerr = 0 /\ xbuf = <<>>
          /\ xlog[Len(xlog)] = <<"Executed command", 0>>
          /\ Len(xlog) + xswallowed = xcmd.out + xcmd.err + 2

C10_Witness ==
    /\ xpc = "done"
    /\ xswallowed = 2
    /\ xcmd = [out |-> 2, err |-> 2]
    /\ xlog = <<<<"Executing command", 0>>, <<"stdout", 2>>, <<"stderr", 1>>,
                <<"Executed command", 0>>>>


\* C11: _single_ssh_exec never leaves the remote process blocked: in a run
\* without failures, whatever the command writes and in whatever order, the
\* invocation has reached 'Executed command' or a further step is possible.
C11_ExecNeverStuck == xpc = "done" \/ ENABLED NextStream


OwnNode(n) == Tags(n) = [type |-> "chainspace", network_id |-> network_id]
Changed(n) == state'[n] # state[n]

\* C12: every operation acts only on instances tagged type=chainspace and
\* network_id = self.network_id: start on the stopped ones (all of them),
\* stop and the fan-out calls on the running ones, terminate on those in any
\* state; no instance of another network or type changes state, is targeted
\* or gets an invocation or a client.
C12_OnlyOwnNetwork ==
    [][/\ \A n \in Instances : Changed(n) => OwnNode(n)
       /\ \A n \in Instances :
             (runs'[n] # 0 \/ ended'[n] # "no" \/ gen'[n] # 0) => OwnNode(n)
       /\ Start => \A n \in Instances :
             /\ Changed(n) => state[n] = "stopped"
             /\ (OwnNode(n) /\ state[n] = "stopped") => state'[n] = "running"
       /\ Stop => \A n \in Instances :
             /\ Changed(n) => state[n] = "running"
             /\ (OwnNode(n) /\ state[n] = "running") => state'[n] = "stopped"
       /\ Terminate => \A n \in Instances :
             (OwnNode(n) /\ state[n] # "absent") => state'[n] = "terminated"
       /\ (\E o \in FanOuts : Dispatch(o)) =>
             targets' = {n \in Instances : OwnNode(n) /\ state[n] = "running"}
      ]_vars

C12_Witness ==
    /\ CallOver
    /\ targets # {}
    /\ \E n \in Nodes : state[n] = "terminated"
    /\ \A n \in Instances \ Nodes : state[n] = "running"


\* ssh_exec is called and the fan-out call before it was an ssh_connect that
\* returned normally (start, stop and terminate may lie between the two)
ExecAfterConnect ==
    /\ ctl = "caller"
    /\ op = "ssh_connect"
    /\ outcome = "returned"
    /\ Dispatch("ssh_exec")

\* C13 (as stated): after ssh_connect has returned normally, every node a
\* later ssh_exec targets has a tracked session, whatever happened to the
\* inventory between the two calls.
C13_ExecTargetsTracked ==
    [][ExecAfterConnect => \A n \in targets' : Tracked(n)]_vars

\* C13 (amended): after ssh_connect has returned normally, the nodes a later
\* ssh_exec targets that were in the snapshot of that ssh_connect have a
\* tracked session; a targeted node outside that snapshot has one only if an
\* earlier ssh_connect gave it one.
C13_SnapshotNodesTracked ==
    [][ExecAfterConnect =>
          /\ \A n \in targets' \cap targets : Tracked(n)
          /\ \A n \in targets' \ targets : Tracked(n) <=> gen[n] > 0]_vars

C13_Witness ==
    /\ op = "ssh_exec"
    /\ ctl = "map"
    /\ Cardinality(targets) = SessNodes
    /\ \A n \in targets : Tracked(n) /\ gen[n] = 1


Keys(conns) == {p[1] : p \in conns}

\* C14: _single_ssh_close closes the node's tracked session and leaves
\* ssh_connections as it was; the key set of ssh_connections never shrinks
\* under any step, so a node that was ever connected keeps an entry and a
\* later _single_ssh_exec on it gets past the lookup.
C14_CloseKeepsMapping ==
    [][/\ Keys(ssh_connections) \subseteq Keys(ssh_connections')
       /\ \A n \in Nodes : gen'[n] > 0 => Lookup(ssh_connections', n) # {}
       /\ \A w \in Workers :
             (SingleSshClose(w) /\ Lookup(ssh_connections, TaskNode(Head(wchunk[w]))) # {}) =>
                /\ ssh_connections' = ssh_connections
                /\ Lookup(ssh_connections, TaskNode(Head(wchunk[w]))) \cap open' = {}
      ]_vars

\* an ssh_exec after ssh_close: the invocation on a node found the closed
\* client under the node's key and failed on it
C14_Witness ==
    /\ op = "ssh_exec"
    /\ \E n \in targets :
          /\ ended[n] = "raised"
          /\ Lookup(ssh_connections, n) # {}
          /\ Lookup(ssh_connections, n) \cap open = {}


\* C15: every open session is the one tracked for its node: no client is
\* open that ssh_connections does not reference.
C15_OpenSessionsAreTracked ==
    \A c \in open : <<c.node, c>> \in ssh_connections


Logged(line) == \E i \in 1..Len(calllog) : calllog[i] = line

\* C16: the closing log line of a fan-out call is written only after every
\* per-node invocation of the call has finished (each target was run once and
\* has ended, no worker holds work), and the opening line is the first line
\* of the call, written before any invocation starts.
C16_ClosingLogAfterAllEnded ==
    /\ (op # "none" /\ Logged(ClosingLine(op))) =>
          /\ Drained
          /\ \A n \in targets : runs[n] = 1 /\ ended[n] # "no"
          /\ calllog = <<OpeningLine(op), ClosingLine(op)>>
    /\ (\E n \in Nodes : runs[n] > 0) =>
          (calllog # <<>> /\ calllog[1] = OpeningLine(op))

C16_Witness ==
    /\ op = "ssh_connect"
    /\ Logged(ClosingLine(op))
    /\ threads > 1
    /\ Cardinality(targets) = ConcNodes


InstalledLogged == \E i \in 1..Len(xlog) : xlog[i] = <<"Installed", 0>>

\* C17: an install invocation runs its commands one at a time in the listed
\* order: the k-th command sent is the k-th of the tuple, a command is taken
\* up only after _single_ssh_exec returned for the one before with its output
\* read to the end, the 'Installed ...' line is logged only after the last
\* command, and after a command raised nothing more is sent or logged.
C17_CommandsInOrder ==
    [][/\ sent' # sent =>
             /\ Len(sent') = Len(sent) + 1
             /\ Len(sent') = ik
             /\ sent'[ik][2] = Commands(ifunc)[ik]
             /\ \A i \in 1..Len(sent) : sent'[i] = sent[i]
       /\ ik' # ik =>
             /\ ik' = ik + 1
             /\ ik > 0 => (xpc = "done" /\ Len(sent) = ik /\ OutputReadToEnd)
       /\ InstalledLogged' =>
             /\ Len(sent') = NumCommands(ifunc)
             /\ ik' = NumCommands(ifunc)
             /\ xpc' = "installed"
             /\ OutputReadToEnd'
       /\ xpc = "raised" => (sent' = sent /\ xlog' = xlog /\ ik' = ik)
      ]_vars

\* the core install has run its four commands, each with output on both
\* streams, and logged 'Installed Chainspace core.'
C17_Witness ==
    /\ ifunc = "_single_install_core"
    /\ xpc = "installed"
    /\ Len(sent) = CoreCommands
    /\ Len(xlog) = 2 + CoreCommands * (2 + 2 * InstLines)


\* the log of one command that wrote o stdout and e stderr lines, as stated
ExpectedLog(o, e) ==
    <<<<"Executing command", 0>>>>
        \o [i \in 1..o |-> <<"stdout", i>>]
        \o [i \in 1..e |-> <<"stderr", i>>]
        \o <<<<"Executed command", 0>>>>

IsPrefix(s, t) == Len(s) <= Len(t) /\ \A i \in 1..Len(s) : s[i] = t[i]

\* C18: the log of one command is 'Executing command', the stdout lines in
\* the order produced, the stderr lines in the order produced, 'Executed
\* command': at every moment the log is a prefix of that sequence (so no
\* stderr line is logged before the last stdout line, in whatever order the
\* remote process wrote), and it is the whole sequence when the invocation
\* has returned.
C18_LogOrder ==
    /\ IsPrefix(xlog, ExpectedLog(xcmd.out, xcmd.err))
    /\ xpc = "done" => xlog = ExpectedLog(xcmd.out, xcmd.err)

\* the process wrote a stderr line before its last stdout line: the stderr
\* line waits in the channel, unlogged, while a stdout line was logged and
\* another is still to be written
C18_Witness ==
    /\ xpc = "stdout"
    /\ xerr >= 1
    /\ Count(remote, "stdout") >= 1
    /\ xlog = <<<<"Executing command", 0>>, <<"stdout", 1>>>>

====
